---- MODULE Spec2Model ----
(***************************************************************************)
(* Model of scripts/publish-packages.py: the WorkflowForge NuGet package   *)
(* publisher.  main() is a sequential pipeline                             *)
(*   restore -> build -> pack (per project) -> verify -> [sign] ->         *)
(*   [publish] -> summary                                                  *)
(* driving external dotnet commands through run(), which ends the process  *)
(* on a non-zero return code.  The external world (return codes, the files *)
(* dotnet pack writes, the contents of an archive) is nondeterministic.    *)
(* Python strings are TLA+ strings, read as sequences of characters.       *)
(***************************************************************************)
EXTENDS Integers, Sequences, FiniteSets, TLC

VARIABLES
    args,        \* the parsed command line (argparse Namespace)
    packages,    \* the project list the run iterates (a prefix of PACKAGES)
    pc,          \* position of main() in the script
    project,     \* index of the project the pack loop is at
    results,     \* the list of {name, packed, signed, published} records
    output_dir,  \* names of the files in <root>/packages
    nupkgs,      \* the sorted glob result the current loop iterates
    idx,         \* position of the current loop in nupkgs
    trace,       \* history: external commands run and archives opened
    warnings,    \* archives reported "WARNING: no README" by the verify step
    summary,     \* the rows printed under SUMMARY (empty until printed)
    exit_code    \* the process exit status (meaningful once pc = "done")

vars == <<args, packages, pc, project, results, output_dir, nupkgs, idx,
          trace, warnings, summary, exit_code>>

(***************************** bounds **************************************)
\* how many entries of PACKAGES a modelled run packs
MaxProjects == 3

\* how many records the registry of the marking check holds at most
MaxRecords == 2

\* how many times the marking step is applied in the marking check
MaxMarks == 2

(************************* program constants *******************************)
PACKAGES ==
    <<
       "src/core/WorkflowForge/WorkflowForge.csproj",
       "src/core/WorkflowForge.Testing/WorkflowForge.Testing.csproj",
       "src/extensions/WorkflowForge.Extensions.DependencyInjection/WorkflowForge.Extensions.DependencyInjection.csproj",
       "src/extensions/WorkflowForge.Extensions.Logging.Serilog/WorkflowForge.Extensions.Logging.Serilog.csproj",
       "src/extensions/WorkflowForge.Extensions.Resilience/WorkflowForge.Extensions.Resilience.csproj",
       "src/extensions/WorkflowForge.Extensions.Resilience.Polly/WorkflowForge.Extensions.Resilience.Polly.csproj",
       "src/extensions/WorkflowForge.Extensions.Validation/WorkflowForge.Extensions.Validation.csproj",
       "src/extensions/WorkflowForge.Extensions.Audit/WorkflowForge.Extensions.Audit.csproj",
       "src/extensions/WorkflowForge.Extensions.Persistence/WorkflowForge.Extensions.Persistence.csproj",
       "src/extensions/WorkflowForge.Extensions.Persistence.Recovery/WorkflowForge.Extensions.Persistence.Recovery.csproj",
       "src/extensions/WorkflowForge.Extensions.Observability.Performance/WorkflowForge.Extensions.Observability.Performance.csproj",
       "src/extensions/WorkflowForge.Extensions.Observability.HealthChecks/WorkflowForge.Extensions.Observability.HealthChecks.csproj",
       "src/extensions/WorkflowForge.Extensions.Observability.OpenTelemetry/WorkflowForge.Extensions.Observability.OpenTelemetry.csproj"
    >>

\* Python's None, as a value distinct from every string the options take
None == "<None>"

\* return codes an external command may end with
ReturnCodes == {0, 1}

\* values of --version
Versions == {"2.1.0"}

\* values of --cert-path and --api-key (absent, empty, given)
CertPaths == {None, "", "cert.pfx"}
ApiKeys == {None, "", "key"}

\* files that may lie in the output directory before the run starts
StaleFiles == {"Legacy.1.0.0.snupkg"}

(*************************** string helpers ********************************)
Char(s, k) == SubSeq(s, k, k)

\* characters in code point order, as Python's str comparison orders them
CodePoints == "-.0123456789<>ABCDEFGHIJKLMNOPQRSTUVWXYZ_abcdefghijklmnopqrstuvwxyz"

Ord(c) == CHOOSE k \in 1..Len(CodePoints) : Char(CodePoints, k) = c

\* str.startswith
startswith(s, prefix) ==
    /\ Len(prefix) <= Len(s)
    /\ SubSeq(s, 1, Len(prefix)) = prefix

\* str.rfind, 1-based; 0 when c does not occur
rfind(s, c) ==
    LET K == {k \in 1..Len(s) : Char(s, k) = c}
    IN  IF K = {} THEN 0 ELSE CHOOSE k \in K : \A m \in K : m <= k

\* PurePath.name: the final path component
PathName(path) == SubSeq(path, rfind(path, "/") + 1, Len(path))

\* PurePath.stem: the final component without its last suffix
stem(path) ==
    LET name == PathName(path)
        i == rfind(name, ".")
    IN  IF 1 < i /\ i < Len(name) THEN SubSeq(name, 1, i - 1) ELSE name

\* Python's a < b on str
StrLess(a, b) ==
    LET D == {k \in 1..Len(a) : k > Len(b) \/ Char(a, k) # Char(b, k)}
    IN  IF D = {}
        THEN Len(a) < Len(b)
        ELSE LET d == CHOOSE k \in D : \A m \in D : k <= m
             IN  d <= Len(b) /\ Ord(Char(a, d)) < Ord(Char(b, d))

RECURSIVE sorted(_)
sorted(S) ==
    IF S = {} THEN <<>>
    ELSE LET m == CHOOSE x \in S : \A y \in S : x = y \/ StrLess(x, y)
         IN  <<m>> \o sorted(S \ {m})

\* fnmatch of name[si..] against pattern[pi..]; "*" matches any run of characters
RECURSIVE FnMatchAt(_, _, _, _)
FnMatchAt(pattern, pi, name, si) ==
    IF pi > Len(pattern) THEN si > Len(name)
    ELSE IF Char(pattern, pi) = "*"
         THEN \E e \in si..(Len(name) + 1) : FnMatchAt(pattern, pi + 1, name, e)
         ELSE /\ si <= Len(name)
              /\ Char(name, si) = Char(pattern, pi)
              /\ FnMatchAt(pattern, pi + 1, name, si + 1)

\* sorted(output_dir.glob(pattern)) over the files present
glob(files, pattern) == {f \in files : FnMatchAt(pattern, 1, f, 1)}

(************************* pieces of main() *********************************)
\* truthiness of an optional string option: None and "" are falsy
Truthy(v) == v # None /\ v # ""

\* mutant: the return code is never looked at (check=False)
run_exits_Unchecked(rc, check) == FALSE

\* run(): with check set, a non-zero return code ends the process
run_exits(rc, check) == check /\ rc # 0

\* one entry of the history
Event(op, target, rc) == [op |-> op, target |-> target, rc |-> rc]

\* mutant: a record starts out marked as signed
NewRecord_Signed(name) ==
    [name |-> name, packed |-> TRUE, signed |-> TRUE, published |-> FALSE]

\* the record appended for a packed project
NewRecord(name) ==
    [name |-> name, packed |-> TRUE, signed |-> FALSE, published |-> FALSE]

\* mutant: the record is appended before the pack command is run
ResultsAfterPack_AppendFirst(res, name, exits) == Append(res, NewRecord(name))

\* results after the pack command of a project returned
ResultsAfterPack(res, name, exits) ==
    IF exits THEN res ELSE Append(res, NewRecord(name))

\* mutant: the loop does not move on and handles the same item again
NextIndex_Stuck(i) == i

\* a for loop taking the next item of the list it iterates
NextIndex(i) == i + 1

\* mutant: after the last project main() starts over at the restore step
AfterPack_StartsOver(k) == IF k < Len(packages) THEN "pack" ELSE "restore"

\* mutant: the pack loop is left after its first iteration
AfterPack_LeavesEarly(k) == "verify_begin"

\* where main() goes after packing project number k
AfterPack(k) == IF k < Len(packages) THEN "pack" ELSE "verify_begin"

\* the files one dotnet pack invocation may write: the package, and with
\* symbols enabled in the project its companion symbols package
PackOutputs(name, version) ==
    { {name \o "." \o version \o ".nupkg"},
      {name \o "." \o version \o ".nupkg", name \o "." \o version \o ".snupkg"} }

\* mutant: the sign loop globs the packages only, not the symbols packages
SignPattern_PackagesOnly == "*.nupkg"

\* mutant: the verify loop globs the symbols packages
VerifyPattern_Symbols == "*.snupkg"

\* the glob patterns of the three archive loops
VerifyPattern == "*.nupkg"
SignPattern == "*.*nupkg"
PublishPattern == "*.*nupkg"

\* Path.stem of every project of the list, computed once
StemOf ==
    [path \in {PACKAGES[k] : k \in 1..MaxProjects} |-> stem(path)]

\* every file name a modelled run can meet in the output directory, and
\* these names in sorted() order, computed once
KnownFiles ==
    StaleFiles \cup
    UNION {UNION PackOutputs(StemOf[PACKAGES[k]], v) :
             k \in 1..MaxProjects, v \in Versions}
SortedKnownFiles == sorted(KnownFiles)

\* the known file names each loop's pattern matches, computed once
VerifyMatches == glob(KnownFiles, VerifyPattern)
SignMatches == glob(KnownFiles, SignPattern)
PublishMatches == glob(KnownFiles, PublishPattern)

\* sorted(output_dir.glob(pattern)) for the files present: the present
\* files the pattern matches, in sorted() order
SortedGlob(files, matches) ==
    SelectSeq(SortedKnownFiles, LAMBDA f : f \in files /\ f \in matches)

\* mutant: the separator is left out of the prefix
Matches_NoSeparator(name, filename) == startswith(filename, name)

\* mutant: every record is taken to match
Matches_Always(name, filename) == TRUE

\* the name test of the marking loops
Matches(name, filename) == startswith(filename, name \o ".")

\* mutant: the flag of a matching record is flipped instead of set
MatchAndMark_Toggle(res, filename, field) ==
    [k \in 1..Len(res) |->
        IF Matches(res[k].name, filename)
        THEN [res[k] EXCEPT ![field] = ~res[k][field]]
        ELSE res[k]]

\* for r in results: if nupkg.name.startswith(r["name"] + "."): r[field] = True
MatchAndMark(res, filename, field) ==
    [k \in 1..Len(res) |->
        IF Matches(res[k].name, filename)
        THEN [res[k] EXCEPT ![field] = TRUE]
        ELSE res[k]]

\* mutant: an archive that does not open is skipped (the error is swallowed)
VerifyExits_Swallowed(valid, has_readme) == FALSE

\* mutant: an archive without a README ends the run like a corrupt one
VerifyExits_OnWarning(valid, has_readme) == ~valid \/ ~has_readme

\* the verify step's effect on the process: only an archive that cannot be
\* opened (zipfile raises) ends it; a missing README is printed and ignored
VerifyExits(valid, has_readme) == ~valid

\* the guards of the optional stages
SignRequested == args.sign

\* mutant: only an absent --cert-path is refused ("is None"), an empty one passes
CertPathMissing_OnlyNone == args.cert_path = None

\* "if not args.cert_path:"
CertPathMissing == ~Truthy(args.cert_path)

\* mutant: only an absent --api-key is refused ("is None"), an empty one passes
ApiKeyMissing_OnlyNone == args.api_key = None

\* "if not args.api_key:"
ApiKeyMissing == ~Truthy(args.api_key)
\* mutant: giving an API key is taken as the request to publish
PublishRequested_ByKey == args.publish \/ Truthy(args.api_key)


PublishRequested == args.publish

\* mutant: every column of the summary shows OK
Flag_AlwaysOK(b) == "OK"

\* one row of the summary table
Flag(b) == IF b THEN "OK" ELSE "-"
SummaryRow(r) ==
    [name |-> r.name, pack |-> Flag(r.packed), sign |-> Flag(r.signed),
     push |-> Flag(r.published)]

\* mutant: the process is ended with sys.exit(0)
Exit_StatusZero ==
    /\ pc' = "done"
    /\ exit_code' = 0

\* sys.exit(1), or an uncaught exception: the process ends with status 1
Exit ==
    /\ pc' = "done"
    /\ exit_code' = 1

(******************************* Init **************************************)
Init ==
    /\ args \in [version : Versions, api_key : ApiKeys, publish : BOOLEAN,
                 sign : BOOLEAN, cert_path : CertPaths]
    /\ packages \in {SubSeq(PACKAGES, 1, n) : n \in 1..MaxProjects}
    /\ pc = "restore"
    /\ project = 1
    /\ results = <<>>
    /\ output_dir \in SUBSET StaleFiles
    /\ nupkgs = <<>>
    /\ idx = 1
    /\ trace = <<>>
    /\ warnings = {}
    /\ summary = <<>>
    /\ exit_code = 0

(****************************** actions ************************************)
\* [1/5] run(["dotnet", "restore", "WorkflowForge.sln"])
Restore ==
    /\ pc = "restore"
    /\ \E rc \in ReturnCodes :
        /\ trace' = Append(trace, Event("restore", "WorkflowForge.sln", rc))
        /\ IF run_exits(rc, TRUE)
           THEN Exit
           ELSE pc' = "build" /\ exit_code' = exit_code
    /\ UNCHANGED <<args, packages, project, results, output_dir, nupkgs, idx,
                   warnings, summary>>

\* [2/5] run(["dotnet", "build", "WorkflowForge.sln", ...])
Build ==
    /\ pc = "build"
    /\ \E rc \in ReturnCodes :
        /\ trace' = Append(trace, Event("build", "WorkflowForge.sln", rc))
        /\ IF run_exits(rc, TRUE)
           THEN Exit /\ results' = results
           ELSE pc' = "pack" /\ exit_code' = exit_code /\ results' = <<>>
    /\ UNCHANGED <<args, packages, project, output_dir, nupkgs, idx,
                   warnings, summary>>

\* [3/5] one iteration of "for project in PACKAGES": dotnet pack, then append
Pack ==
    /\ pc = "pack"
    /\ LET name == StemOf[packages[project]]
       IN  \E rc \in ReturnCodes, written \in PackOutputs(name, args.version) :
            /\ trace' = Append(trace, Event("pack", packages[project], rc))
            /\ results' = ResultsAfterPack(results, name, run_exits(rc, TRUE))
            /\ IF run_exits(rc, TRUE)
               THEN Exit /\ UNCHANGED <<project, output_dir>>
               ELSE /\ output_dir' = output_dir \cup written
                    /\ project' = NextIndex(project)
                    /\ pc' = AfterPack(project)
                    /\ exit_code' = exit_code
    /\ UNCHANGED <<args, packages, nupkgs, idx, warnings, summary>>

\* [4/5] sorted(output_dir.glob("*.nupkg")) is evaluated once, before the loop
VerifyBegin ==
    /\ pc = "verify_begin"
    /\ nupkgs' = SortedGlob(output_dir, VerifyMatches)
    /\ idx' = 1
    /\ pc' = "verify"
    /\ UNCHANGED <<args, packages, project, results, output_dir, trace,
                   warnings, summary, exit_code>>

\* one iteration of the verify loop: open the archive, look for a README
VerifyArchive ==
    /\ pc = "verify"
    /\ idx <= Len(nupkgs)
    /\ \E valid \in BOOLEAN, has_readme \in BOOLEAN :
        /\ trace' = Append(trace,
                           Event("verify", nupkgs[idx], IF valid THEN 0 ELSE 1))
        /\ IF VerifyExits(valid, has_readme)
           THEN Exit /\ UNCHANGED <<idx, warnings>>
           ELSE /\ warnings' = IF valid /\ ~has_readme
                               THEN warnings \cup {nupkgs[idx]}
                               ELSE warnings
                /\ idx' = NextIndex(idx)
                /\ UNCHANGED <<pc, exit_code>>
    /\ UNCHANGED <<args, packages, project, results, output_dir, nupkgs,
                   summary>>

\* the verify loop is exhausted
VerifyEnd ==
    /\ pc = "verify"
    /\ idx > Len(nupkgs)
    /\ pc' = "sign_begin"
    /\ UNCHANGED <<args, packages, project, results, output_dir, nupkgs, idx,
                   trace, warnings, summary, exit_code>>

\* "if args.sign:" with the --cert-path check and the glob of the sign loop
SignBegin ==
    /\ pc = "sign_begin"
    /\ IF ~SignRequested
       THEN pc' = "publish_begin" /\ UNCHANGED <<nupkgs, idx, exit_code>>
       ELSE IF CertPathMissing
            THEN Exit /\ UNCHANGED <<nupkgs, idx>>
            ELSE /\ nupkgs' = SortedGlob(output_dir, SignMatches)
                 /\ idx' = 1
                 /\ pc' = "sign"
                 /\ exit_code' = exit_code
    /\ UNCHANGED <<args, packages, project, results, output_dir, trace,
                   warnings, summary>>

\* one iteration of the sign loop: dotnet nuget sign, then mark the records
SignArchive ==
    /\ pc = "sign"
    /\ idx <= Len(nupkgs)
    /\ \E rc \in ReturnCodes :
        /\ trace' = Append(trace, Event("sign", nupkgs[idx], rc))
        /\ IF run_exits(rc, TRUE)
           THEN Exit /\ UNCHANGED <<results, idx>>
           ELSE /\ results' = MatchAndMark(results, nupkgs[idx], "signed")
                /\ idx' = NextIndex(idx)
                /\ UNCHANGED <<pc, exit_code>>
    /\ UNCHANGED <<args, packages, project, output_dir, nupkgs, warnings,
                   summary>>

\* the sign loop is exhausted
SignEnd ==
    /\ pc = "sign"
    /\ idx > Len(nupkgs)
    /\ pc' = "publish_begin"
    /\ UNCHANGED <<args, packages, project, results, output_dir, nupkgs, idx,
                   trace, warnings, summary, exit_code>>

\* "if args.publish:" with the --api-key check and the glob of the push loop;
\* else the dry-run message
PublishBegin ==
    /\ pc = "publish_begin"
    /\ IF ~PublishRequested
       THEN pc' = "summary" /\ UNCHANGED <<nupkgs, idx, exit_code>>
       ELSE IF ApiKeyMissing
            THEN Exit /\ UNCHANGED <<nupkgs, idx>>
            ELSE /\ nupkgs' = SortedGlob(output_dir, PublishMatches)
                 /\ idx' = 1
                 /\ pc' = "publish"
                 /\ exit_code' = exit_code
    /\ UNCHANGED <<args, packages, project, results, output_dir, trace,
                   warnings, summary>>

\* one iteration of the push loop: dotnet nuget push, then mark the records
PublishArchive ==
    /\ pc = "publish"
    /\ idx <= Len(nupkgs)
    /\ \E rc \in ReturnCodes :
        /\ trace' = Append(trace, Event("push", nupkgs[idx], rc))
        /\ IF run_exits(rc, TRUE)
           THEN Exit /\ UNCHANGED <<results, idx>>
           ELSE /\ results' = MatchAndMark(results, nupkgs[idx], "published")
                /\ idx' = NextIndex(idx)
                /\ UNCHANGED <<pc, exit_code>>
    /\ UNCHANGED <<args, packages, project, output_dir, nupkgs, warnings,
                   summary>>

\* the push loop is exhausted
PublishEnd ==
    /\ pc = "publish"
    /\ idx > Len(nupkgs)
    /\ pc' = "summary"
    /\ UNCHANGED <<args, packages, project, results, output_dir, nupkgs, idx,
                   trace, warnings, summary, exit_code>>

\* the SUMMARY table, one row per record; main() returns and the process ends
Summary ==
    /\ pc = "summary"
    /\ summary' = [k \in 1..Len(results) |-> SummaryRow(results[k])]
    /\ pc' = "done"
    /\ UNCHANGED <<args, packages, project, results, output_dir, nupkgs, idx,
                   trace, warnings, exit_code>>

Next ==
    \/ Restore
    \/ Build
    \/ Pack
    \/ VerifyBegin
    \/ VerifyArchive
    \/ VerifyEnd
    \/ SignBegin
    \/ SignArchive
    \/ SignEnd
    \/ PublishBegin
    \/ PublishArchive
    \/ PublishEnd
    \/ Summary

Spec == Init /\ [][Next]_vars

\* main() is sequential and every command is taken to return: a step that
\* can be taken is taken
FairSpec == Spec /\ WF_vars(Next)

(******************* the marking step on its own ***************************)
\* record names and archive file names the marking step is tried on
MarkNames == {"Foo", "FooBar", "Bar"}
MarkFiles == {"Foo.1.2.3.nupkg", "Foo.1.2.3.snupkg", "FooBar.1.0.0.nupkg",
              "Other.1.0.0.nupkg"}

\* the flag each loop sets, and the command that loop runs
MarkFields == {"signed", "published"}
FieldOp(field) == IF field = "signed" THEN "sign" ELSE "push"

\* registries as the pack loop leaves them: fresh records, distinct names
MarkRegistries ==
    UNION {{[k \in 1..n |-> NewRecord(names[k])] :
              names \in {q \in [1..n -> MarkNames] :
                            \A a, b \in 1..n : a # b => q[a] # q[b]}} :
           n \in 1..MaxRecords}

MarkInit ==
    /\ args = [version |-> "1.2.3", api_key |-> "key", publish |-> TRUE,
               sign |-> TRUE, cert_path |-> "cert.pfx"]
    /\ packages = <<>>
    /\ pc = "mark"
    /\ project = 1
    /\ results \in MarkRegistries
    /\ output_dir = MarkFiles
    /\ nupkgs = <<>>
    /\ idx = 1
    /\ trace = <<>>
    /\ warnings = {}
    /\ summary = <<>>
    /\ exit_code = 0

\* the body of either marking loop after its command returned 0
Mark ==
    /\ pc = "mark"
    /\ Len(trace) < MaxMarks
    /\ \E f \in MarkFiles, field \in MarkFields :
        /\ trace' = Append(trace, Event(FieldOp(field), f, 0))
        /\ results' = MatchAndMark(results, f, field)
    /\ UNCHANGED <<args, packages, pc, project, output_dir, nupkgs, idx,
                   warnings, summary, exit_code>>

MarkNext == Mark

SpecMark == MarkInit /\ [][MarkNext]_vars

(*************************** claim helpers *********************************)
ExternalOps == {"restore", "build", "pack", "sign", "push"}

\* position of an operation's stage in the pipeline
StageRank(op) ==
    CASE op = "restore" -> 1
      [] op = "build" -> 2
      [] op = "pack" -> 3
      [] op = "verify" -> 4
      [] op = "sign" -> 5
      [] op = "push" -> 6

Events(op) == {k \in 1..Len(trace) : trace[k].op = op}

\* an external command that returned non-zero
FailedCall(e) == e.op \in ExternalOps /\ e.rc # 0

Last(seq) == seq[Len(seq)]

\* the file name ends with the given extension
HasSuffix(f, ext) ==
    /\ Len(ext) <= Len(f)
    /\ SubSeq(f, Len(f) - Len(ext) + 1, Len(f)) = ext

\* the record main() creates for project number k
PackedRecord(k) ==
    [name |-> stem(packages[k]), packed |-> TRUE, signed |-> FALSE,
     published |-> FALSE]

(******************************* claims ************************************)
\* C1: the invocations occur in the order restore, build, pack (one per
\* project, in list order), verify, sign (only if requested), publish (only
\* if requested); an invocation is made only after every earlier one returned
\* successfully, and an archive is verified, signed or published only after
\* the last pack invocation returned and (for sign, publish) after verify
\* went through every "*.nupkg" archive.
C1_StagesInOrder ==
    /\ \A k \in 1..(Len(trace) - 1) :
        /\ StageRank(trace[k].op) <= StageRank(trace[k + 1].op)
        /\ trace[k].rc = 0
    /\ Len(trace) >= 1 => trace[1].op = "restore"
    /\ Len(trace) >= 2 => trace[2].op = "build"
    /\ \A k \in Events("restore") \cup Events("build") : k <= 2
    /\ \A k \in Events("pack") :
        k - 2 \in 1..Len(packages) /\ trace[k].target = packages[k - 2]
    /\ (Events("verify") \cup Events("sign") \cup Events("push") # {}
          \/ pc \in {"verify_begin", "verify", "sign_begin", "sign",
                     "publish_begin", "publish", "summary"})
        => /\ Cardinality(Events("pack")) = Len(packages)
           /\ \A k \in Events("pack") : trace[k].rc = 0
    /\ Events("sign") \cup Events("push") # {}
        => \A f \in output_dir :
              HasSuffix(f, ".nupkg")
                => \E k \in Events("verify") :
                      trace[k].target = f /\ trace[k].rc = 0
    /\ Events("sign") # {} => args.sign
    /\ Events("push") # {} => args.publish

\* a full run: every stage has acted, on at least two projects
C1_Witness ==
    /\ pc = "done" /\ exit_code = 0 /\ summary # <<>>
    /\ Len(packages) >= 2
    /\ \A op \in ExternalOps \cup {"verify"} : Events(op) # {}

\* C2, the state part: a failed external command is the last entry of the
\* history, the process has ended with a non-zero status and no summary.
C2_StoppedAtFailure ==
    \A k \in 1..Len(trace) :
        FailedCall(trace[k])
            => /\ k = Len(trace)
               /\ pc = "done"
               /\ exit_code # 0
               /\ summary = <<>>

\* C2, the step part: the step in which a command fails changes no record,
\* and after a failure no step runs a command or changes a record.
C2_FailureStep ==
    ((\E k \in 1..Len(trace) : FailedCall(trace[k]))
        \/ (Len(trace') = Len(trace) + 1 /\ FailedCall(Last(trace'))))
    => /\ results' = results
       /\ output_dir' = output_dir
       /\ summary' = summary
       /\ pc' = "done"
       /\ exit_code' # 0
       /\ Len(trace') <= Len(trace) + 1
       /\ (\E k \in 1..Len(trace) : FailedCall(trace[k])) => trace' = trace

\* C2: whenever an external command run with check enabled returns non-zero
\* the run stops there: no further command is invoked, no registry record is
\* created or changed afterwards, and the process ends with non-zero status.
C2_FailureStopsRun == []C2_StoppedAtFailure /\ [][C2_FailureStep]_vars

\* a sign command failed after records had been created and one was marked
C2_Witness ==
    /\ pc = "done"
    /\ Len(trace) > 0
    /\ Last(trace).op = "sign" /\ Last(trace).rc # 0
    /\ \E k \in 1..Len(results) : results[k].signed
    /\ \E k \in 1..Len(results) : ~results[k].signed

\* C3: with publish unset no publish invocation occurs and every record's
\* published flag is false in every state, the summary's rows included,
\* whatever the sign option is.
C3_DryRunNeverPublishes ==
    ~args.publish
        => /\ Events("push") = {}
           /\ pc # "publish"
           /\ \A k \in 1..Len(results) : ~results[k].published
           /\ \A k \in 1..Len(summary) : summary[k].push = "-"

\* a dry run with signing that reached the summary, with a signed record
C3_Witness ==
    /\ ~args.publish /\ args.sign
    /\ pc = "done" /\ exit_code = 0 /\ summary # <<>>
    /\ Truthy(args.api_key)
    /\ \E k \in 1..Len(results) : results[k].signed

\* C4: right after the pack stage completed successfully the registry holds
\* exactly one record per project, in project-list order, each with
\* packed = TRUE, signed = FALSE, published = FALSE.
C4_RegistryAfterPack ==
    pc = "verify_begin"
        => /\ Len(results) = Len(packages)
           /\ \A k \in 1..Len(packages) : results[k] = PackedRecord(k)
           /\ results[1].name = "WorkflowForge"

\* the pack stage completed for a list of at least two projects
C4_Witness ==
    /\ pc = "verify_begin"
    /\ Len(packages) >= 2
    /\ Len(results) >= 2
    /\ results[2].name = "WorkflowForge.Testing"

\* C5: if the pack invocation of project p fails, pack is never invoked for
\* a later project, the registry holds records exactly for projects 1..p-1
\* (each packed) and verify, sign and publish are never entered.
C5_PackFailureHalts ==
    \A k \in Events("pack") :
        trace[k].rc # 0
            => LET p == k - 2
               IN  /\ trace[k].target = packages[p]
                   /\ k = Len(trace)
                   /\ Cardinality(Events("pack")) = p
                   /\ Len(results) = p - 1
                   /\ \A m \in 1..(p - 1) : results[m] = PackedRecord(m)
                   /\ Events("verify") \cup Events("sign") \cup Events("push") = {}
                   /\ pc = "done" /\ exit_code # 0
                   /\ summary = <<>>

\* the pack of the second or a later project failed
C5_Witness ==
    /\ pc = "done"
    /\ \E k \in Events("pack") : trace[k].rc # 0 /\ k - 2 >= 2
    /\ Len(results) >= 1
    /\ Len(results) < Len(packages)

\* C6: when sign is requested and no cert-path is configured the run ends
\* with a fatal configuration error before the signer is invoked for any
\* archive: no sign invocation, no signed flag set, publish not entered.
C6_SignNeedsCertPath ==
    (args.sign /\ ~Truthy(args.cert_path))
        => /\ Events("sign") = {}
           /\ Events("push") = {}
           /\ \A k \in 1..Len(results) : ~results[k].signed
           /\ pc \notin {"sign", "publish_begin", "publish", "summary"}
           /\ pc = "done" => (exit_code # 0 /\ summary = <<>>)

\* the run got through verify and was ended by the cert-path check
C6_Witness ==
    /\ args.sign /\ ~Truthy(args.cert_path)
    /\ pc = "done" /\ exit_code # 0
    /\ Len(trace) > 0
    /\ Last(trace).op = "verify" /\ Last(trace).rc = 0
    /\ Len(results) = Len(packages)

\* C7: when publish is requested and no api-key is configured the run ends
\* with a fatal configuration error before the publish tool is invoked for
\* any archive: no publish invocation and no published flag set, whether or
\* not the sign stage ran before.
C7_PublishNeedsApiKey ==
    (args.publish /\ ~Truthy(args.api_key))
        => /\ Events("push") = {}
           /\ \A k \in 1..Len(results) : ~results[k].published
           /\ pc \notin {"publish", "summary"}
           /\ pc = "done" => (exit_code # 0 /\ summary = <<>>)

\* the sign stage ran to its end and the run was ended by the api-key check
C7_Witness ==
    /\ args.publish /\ ~Truthy(args.api_key) /\ args.sign
    /\ pc = "done" /\ exit_code # 0
    /\ Len(trace) > 0
    /\ Last(trace).op = "sign" /\ Last(trace).rc = 0
    /\ \A k \in 1..Len(results) : results[k].signed

\* the archives a project's pack invocation writes in this run
ProducedArchives ==
    UNION {UNION PackOutputs(stem(packages[k]), args.version) :
             k \in 1..Len(packages)}

\* the records an archive file name matches
MatchingRecords(filename) ==
    {k \in 1..Len(results) : Matches(results[k].name, filename)}

\* C8: every archive <name>.<version>.nupkg or .snupkg produced for a project
\* of the program's list matches at most one registry record under the
\* name + "." prefix rule, so signing or publishing one project's archive
\* never marks another project's record.
C8_ArchiveMatchesOneRecord ==
    \A k \in Events("sign") \cup Events("push") :
        (trace[k].rc = 0 /\ trace[k].target \in ProducedArchives)
            => Cardinality(MatchingRecords(trace[k].target)) <= 1

C10_VerifyStep ==
    (pc = "verify" /\ idx <= Len(nupkgs)
        /\ Len(trace') = Len(trace) + 1
        /\ Last(trace').op = "verify" /\ Last(trace').rc = 0)
    => /\ results' = results
       /\ output_dir' = output_dir
       /\ exit_code' = exit_code
       /\ summary' = summary
       /\ nupkgs' = nupkgs
       /\ pc' = "verify"
       /\ idx' = idx + 1

\* why a run may end with a non-zero status: a failed command or an archive
\* that does not open, or a requested stage without its required option
FatalCause ==
    \/ (Len(trace) > 0 /\ Last(trace).rc # 0)
    \/ (args.sign /\ ~Truthy(args.cert_path))
    \/ (args.publish /\ ~Truthy(args.api_key))

\* C10, the state part: whether sign and publish are entered and how the
\* run ends is decided by the options and the commands' return codes, not
\* by the warnings.
C10_OutcomeIgnoresWarnings ==
    /\ pc = "done" => (exit_code # 0 <=> FatalCause)
    /\ (pc = "done" /\ exit_code = 0) => summary # <<>>
    /\ pc = "sign" => (args.sign /\ Truthy(args.cert_path))
    /\ pc = "publish" => (args.publish /\ Truthy(args.api_key))
    /\ (pc \in {"publish_begin", "publish", "summary"}
            \/ (pc = "done" /\ exit_code = 0))
        => (args.sign <=> Events("sign") # {})
    /\ (pc = "summary" \/ (pc = "done" /\ exit_code = 0))
        => (args.publish <=> Events("push") # {})

\* C10: a verify result of "no README" on any of the archives changes
\* nothing but the log: the registry after verify equals the registry before
\* it, sign and publish are entered exactly when the options ask for them,
\* and the exit status is that of the same run without the warnings.
C10_WarningsChangeNothing ==
    [][C10_VerifyStep]_vars /\ []C10_OutcomeIgnoresWarnings

\* a run with a warning that went on to sign, publish and end with status 0
C10_Witness ==
    /\ warnings # {}
    /\ pc = "done" /\ exit_code = 0 /\ summary # <<>>
    /\ Events("sign") # {} /\ Events("push") # {}

\* every pack invocation of the run has been made and none has failed
PackStageDone ==
    /\ Cardinality(Events("pack")) = Len(packages)
    /\ \A k \in 1..Len(trace) : trace[k].rc = 0

\* the fatal errors of a run that has ended: a failed restore, build, pack,
\* sign or push command, an archive verify could not open, or a requested
\* stage reached without its required option
FatalError ==
    \/ (Len(trace) > 0 /\ FailedCall(Last(trace)))
    \/ (Len(trace) > 0 /\ Last(trace).op = "verify" /\ Last(trace).rc # 0)
    \/ (PackStageDone /\ args.sign /\ ~Truthy(args.cert_path))
    \/ (PackStageDone /\ args.publish /\ ~Truthy(args.api_key))

\* C11: the process exits with 0 exactly when the run reached its end
\* without a fatal error and with a non-zero code exactly when a fatal error
\* occurred; a run that exits 0 has printed the summary, a run that hit a
\* fatal error has not, and nothing is printed before the end.
C11_ExitStatusContract ==
    /\ exit_code \in {0, 1}
    /\ pc # "done" => (exit_code = 0 /\ summary = <<>>)
    /\ pc = "done"
        => /\ exit_code = 0 <=> ~FatalError
           /\ exit_code # 0 <=> FatalError
           /\ exit_code = 0 => (summary # <<>> /\ Len(summary) = Len(results))
           /\ exit_code # 0 => summary = <<>>

\* a run that signed and published everything and ended with status 0
C11_Witness ==
    /\ pc = "done" /\ exit_code = 0
    /\ args.sign /\ args.publish
    /\ Len(summary) = Len(packages)
    /\ \A k \in 1..Len(summary) : summary[k].push = "OK"

\* the targets an operation has been invoked on
Targets(op) == {trace[k].target : k \in Events(op)}

\* C12: no external command is invoked twice for the same target in a run:
\* restore and build at most once, pack at most once per project, the signer
\* and the publish tool at most once per archive; a command that failed is
\* never invoked again.
C12_NoRepeatedInvocation ==
    /\ Cardinality(Events("restore")) <= 1
    /\ Cardinality(Events("build")) <= 1
    /\ \A op \in ExternalOps :
        Cardinality(Targets(op)) = Cardinality(Events(op))
    /\ \A k \in 1..Len(trace) :
        FailedCall(trace[k])
            => \A m \in 1..Len(trace) :
                  (m # k /\ trace[m].op = trace[k].op)
                      => trace[m].target # trace[k].target

\* several archives were signed and pushed, the last push failing
C12_Witness ==
    /\ pc = "done"
    /\ Cardinality(Events("sign")) >= 3
    /\ Cardinality(Events("push")) >= 3
    /\ Last(trace).op = "push" /\ Last(trace).rc # 0

\* C13: with sign and publish unset and every command succeeding the run
\* invokes restore once, build once and pack once per project, verifies the
\* archives, invokes neither the signer nor the publish tool, and ends in the
\* dry-run state with one summary row per project in list order, each
\* showing packed OK, signed -, published -.
C13_PlainDryRun ==
    (/\ ~args.sign /\ ~args.publish
     /\ pc = "done"
     /\ \A k \in 1..Len(trace) : trace[k].rc = 0)
    => /\ exit_code = 0
       /\ Cardinality(Events("restore")) = 1
       /\ Cardinality(Events("build")) = 1
       /\ Cardinality(Events("pack")) = Len(packages)
       /\ \A p \in 1..Len(packages) :
            \E k \in Events("pack") : trace[k].target = packages[p]
       /\ Targets("verify") = {f \in output_dir : HasSuffix(f, ".nupkg")}
       /\ Events("sign") = {}
       /\ Events("push") = {}
       /\ summary = [k \in 1..Len(packages) |->
                        [name |-> stem(packages[k]), pack |-> "OK",
                         sign |-> "-", push |-> "-"]]

\* a completed dry run of at least two projects with a symbols package
C13_Witness ==
    /\ ~args.sign /\ ~args.publish
    /\ pc = "done" /\ exit_code = 0
    /\ Len(summary) >= 2
    /\ summary[2].name = "WorkflowForge.Testing"
    /\ \E f \in output_dir : f \in ProducedArchives /\ HasSuffix(f, ".snupkg")

\* the flag a history entry's command sets, and the other flag
EventField(e) == IF e.op = "sign" THEN "signed" ELSE "published"
OtherField(e) == IF e.op = "sign" THEN "published" ELSE "signed"

\* C14, one step: marking for archive f and a field sets the field on exactly
\* the records whose name + "." is a prefix of f and changes nothing else.
C14_MarkStep ==
    Len(trace') = Len(trace) + 1
    => LET e == Last(trace')
           f == e.target
           field == EventField(e)
           other == OtherField(e)
       IN  /\ Len(results') = Len(results)
           /\ \A k \in 1..Len(results) :
                /\ results'[k].name = results[k].name
                /\ results'[k].packed = results[k].packed
                /\ results'[k][other] = results[k][other]
                /\ results'[k][field] =
                      (results[k][field]
                         \/ startswith(f, results[k].name \o "."))
                /\ (results[k].name = "Foo"
                      /\ f \in {"Foo.1.2.3.nupkg", "Foo.1.2.3.snupkg"})
                    => results'[k][field]
                /\ (results[k].name = "Foo" /\ f = "FooBar.1.0.0.nupkg")
                    => results'[k] = results[k]
           /\ (\A k \in 1..Len(results) :
                  ~startswith(f, results[k].name \o "."))
                => results' = results

\* C14: the marking step for an archive file name f and a field sets that
\* field on exactly the records r with r.name + "." a prefix of f (Foo is
\* marked by Foo.1.2.3.nupkg and Foo.1.2.3.snupkg, not by
\* FooBar.1.0.0.nupkg) and leaves every other record, every other field and
\* the number and order of records unchanged; an f matching no record
\* leaves the registry unchanged.
C14_MarkingFrame == [][C14_MarkStep]_vars

\* Foo and FooBar are in the registry; an archive matching nothing and
\* FooBar's archive were marked as signed: Foo has stayed unmarked
C14_Witness ==
    /\ pc = "mark"
    /\ Len(results) = 2
    /\ results[1].name = "Foo" /\ results[2].name = "FooBar"
    /\ Len(trace) = 2
    /\ trace[1] = Event("sign", "Other.1.0.0.nupkg", 0)
    /\ trace[2] = Event("sign", "FooBar.1.0.0.nupkg", 0)
    /\ ~results[1].signed /\ results[2].signed
    /\ ~results[2].published

\* the package and the symbols package of one project
FooArchives == {"Foo.1.2.3.nupkg", "Foo.1.2.3.snupkg"}

\* C15, one step: marking again with the archive and field of the marking
\* just done, or with the companion archive of the same project, changes
\* nothing.
C15_RemarkStep ==
    (/\ Len(trace) >= 1
     /\ Len(trace') = Len(trace) + 1
     /\ Last(trace').op = Last(trace).op
     /\ \/ Last(trace').target = Last(trace).target
        \/ {Last(trace').target, Last(trace).target} \subseteq FooArchives)
    => results' = results

\* C15: marking is idempotent: applying the marking step twice with the same
\* archive and field yields the registry of applying it once, so a project
\* with a package and a symbols package ends with the record state of a
\* project with one archive.
C15_MarkingIdempotent == [][C15_RemarkStep]_vars

\* Foo's record was marked published twice, by its package and its symbols
\* package
C15_Witness ==
    /\ pc = "mark"
    /\ Len(trace) = 2
    /\ trace[1] = Event("push", "Foo.1.2.3.nupkg", 0)
    /\ trace[2] = Event("push", "Foo.1.2.3.snupkg", 0)
    /\ \E k \in 1..Len(results) :
        results[k].name = "Foo" /\ results[k].published /\ ~results[k].signed

\* C16: if an archive iterated by verify cannot be opened the run is stopped
\* inside the verify stage: no sign and no publish invocation follows, the
\* summary is not printed and the process exits non-zero.
C16_CorruptArchiveStops ==
    \A k \in Events("verify") :
        trace[k].rc # 0
            => /\ k = Len(trace)
               /\ pc = "done"
               /\ exit_code # 0
               /\ summary = <<>>
               /\ Events("sign") = {}
               /\ Events("push") = {}
               /\ \A m \in 1..Len(results) :
                    ~results[m].signed /\ ~results[m].published

\* the second archive did not open, in a run asked to sign and publish
C16_Witness ==
    /\ pc = "done"
    /\ args.sign /\ Truthy(args.cert_path)
    /\ args.publish /\ Truthy(args.api_key)
    /\ Cardinality(Events("verify")) >= 2
    /\ Last(trace).op = "verify" /\ Last(trace).rc # 0

\* the file is a package or a symbols package
IsArchive(f) == HasSuffix(f, ".nupkg") \/ HasSuffix(f, ".snupkg")

\* C17: when sign and publish are both requested no archive is passed to the
\* publish tool before the sign stage has succeeded for every archive in the
\* output directory: at each publish invocation every archive of the publish
\* set has been signed in this run, and a sign failure means nothing is
\* published.
C17_SignedBeforePublished ==
    args.sign
        => /\ (Events("push") # {} \/ pc = "publish")
                => /\ \A f \in output_dir :
                        IsArchive(f)
                          => \E m \in Events("sign") :
                                /\ trace[m].target = f
                                /\ trace[m].rc = 0
                                /\ \A k \in Events("push") : m < k
                   /\ \A k \in 1..Len(nupkgs) :
                        pc = "publish" => nupkgs[k] \in Targets("sign")
                   /\ Targets("push") \subseteq Targets("sign")
           /\ (\E m \in Events("sign") : trace[m].rc # 0)
                => Events("push") = {}

\* packages and a symbols package were signed and then pushed
C17_Witness ==
    /\ args.sign /\ args.publish
    /\ pc = "done" /\ exit_code = 0
    /\ Cardinality(Events("push")) >= 3
    /\ \E k \in Events("push") : HasSuffix(trace[k].target, ".snupkg")

\* C18: every archive passed to the signer or the publish tool was written by
\* one of this run's pack invocations (and carries the requested version),
\* also when the output directory held archives before the run started.
C18_OnlyThisRunsArchives ==
    \A k \in Events("sign") \cup Events("push") :
        /\ trace[k].target \in ProducedArchives
        /\ \E p \in 1..Len(packages) :
              startswith(trace[k].target,
                         stem(packages[p]) \o "." \o args.version \o ".")

\* C19, the state part: a flag is set only if its command has succeeded in
\* this run for an archive whose name starts with the record's name + ".",
\* and every record is packed.
C19_FlagsHaveCause ==
    \A k \in 1..Len(results) :
        /\ results[k].packed
        /\ results[k].signed
            => \E m \in Events("sign") :
                  /\ trace[m].rc = 0
                  /\ startswith(trace[m].target, results[k].name \o ".")
        /\ results[k].published
            => \E m \in Events("push") :
                  /\ trace[m].rc = 0
                  /\ startswith(trace[m].target, results[k].name \o ".")

\* C19, the step part: records are never removed or reordered and a flag
\* that is set stays set.
C19_RegistryStep ==
    /\ Len(results') >= Len(results)
    /\ \A k \in 1..Len(results) :
        /\ results'[k].name = results[k].name
        /\ results[k].packed => results'[k].packed
        /\ results[k].signed => results'[k].signed
        /\ results[k].published => results'[k].published

\* C19: a record's signed (published) flag is true only if the signer (the
\* publish tool) has returned success in this run for an archive whose file
\* name starts with the record's name + "."; flags are never reset, records
\* never removed or reordered, and every record has packed = TRUE.
C19_RegistryInvariant == []C19_FlagsHaveCause /\ [][C19_RegistryStep]_vars

\* in the push loop: all records signed, some but not all published
C19_Witness ==
    /\ pc = "publish"
    /\ Len(results) >= 2
    /\ \A k \in 1..Len(results) : results[k].signed
    /\ \E k \in 1..Len(results) : results[k].published
    /\ \E k \in 1..Len(results) : ~results[k].published

\* position of a program point in main()
PcRank(p) ==
    CASE p = "restore" -> 1
      [] p = "build" -> 2
      [] p = "pack" -> 3
      [] p = "verify_begin" -> 4
      [] p = "verify" -> 5
      [] p = "sign_begin" -> 6
      [] p = "sign" -> 7
      [] p = "publish_begin" -> 8
      [] p = "publish" -> 9
      [] p = "summary" -> 10
      [] p = "done" -> 11

\* the three ways a run ends
FatalStop == exit_code # 0 /\ summary = <<>>
DryRunDone == exit_code = 0 /\ ~args.publish /\ summary # <<>>
PublishDone == exit_code = 0 /\ args.publish /\ summary # <<>>

\* C20, the state part: a run that has ended is in exactly one of the three
\* terminal states.
C20_TerminalKinds ==
    pc = "done"
        => Cardinality({b \in {<<1, FatalStop>>, <<2, DryRunDone>>,
                                <<3, PublishDone>>} : b[2]}) = 1

\* C20, the step part: main() never goes back to an earlier program point,
\* and a loop that stays at its point has moved on to its next item.
C20_Progress ==
    /\ PcRank(pc) <= PcRank(pc')
    /\ pc' = pc => (project' > project \/ idx' > idx)

\* C20: given that every external command returns, every run terminates, in
\* exactly one of three terminal states: fatal stop (non-zero exit),
\* completed dry run (publish unset, summary printed) or completed publish
\* (summary printed); no stage loops or is entered again.
C20_Terminates ==
    /\ <>(pc = "done")
    /\ []C20_TerminalKinds
    /\ [][C20_Progress]_vars

\* a run without signing that published every archive and ended
C20_Witness ==
    /\ pc = "done" /\ PublishDone
    /\ ~args.sign
    /\ Cardinality(Events("push")) >= 2
    /\ \A k \in 1..Len(results) : results[k].published /\ ~results[k].signed

====
